---- MODULE Spec2Model ----
(***************************************************************************)
(* Model of class WordleAid (wordleaid.py): the tile comparison            *)
(* compare_words and the candidate filter find_candidates.                 *)
(*                                                                         *)
(* A word is a tuple of one-character strings; a tilestring is a tuple of  *)
(* tile symbols.  The emoji tiles of the source are written by name:       *)
(* "green", "yellow", "black", "white".                                    *)
(***************************************************************************)
EXTENDS Integers, Sequences, FiniteSets, TLC

VARIABLES
    output_style,    \* the style chosen at construction ("blocks" or "alpha")
    accepted_words,  \* self.accepted_words, loaded at construction
    last,            \* "init" before the call, then the method called
    guess,           \* compare_words: argument `guess`
    wordle,          \* compare_words: argument `wordle`
    tiles,           \* compare_words: outcome [error, value]
    known_info,      \* find_candidates: argument `known_info`
    wordlist,        \* find_candidates: the word list filtered (argument or default)
    candidates       \* find_candidates: outcome [error, value]

vars == <<output_style, accepted_words, last, guess, wordle, tiles,
          known_info, wordlist, candidates>>

-----------------------------------------------------------------------------
(* Bounds of the model and constants of the program *)

\* len(...) != 5 and [None] * 5: the word length of the program
WordLen == 5

\* letters of the alphabet the inputs are drawn from
NumLetters == 2

Alphabet == <<"A", "B", "C", "D">>

Letters == {Alphabet[k] : k \in 1..NumLetters}

\* the 5-letter words over the alphabet
Words == [1..WordLen -> Letters]

\* words that are too short or too long
WrongLengths == {2, 4, WordLen + 1}

WrongWords == UNION {[1..n -> Letters] : n \in WrongLengths}

\* the words handed to compare_words
InputWords == Words \cup WrongWords

-----------------------------------------------------------------------------
(* __init__ *)

Styles == {"blocks", "alpha"}

YES == {"Y", "green"}

MAYBE == {"?", "yellow"}

NO == {"_", "black", "white"}

Y_DISPLAY == IF output_style = "blocks" THEN "green" ELSE "Y"

M_DISPLAY == IF output_style = "blocks" THEN "yellow" ELSE "?"

N_DISPLAY == IF output_style = "blocks" THEN "black" ELSE "_"

\* outcome of a call: a value, or the error raised
Ok(v) == [error |-> "none", value |-> v]

Raise(e) == [error |-> e, value |-> <<>>]

-----------------------------------------------------------------------------
(* compare_words *)

Min(a, b) == IF a < b THEN a ELSE b

\* list(zip(wordle, guess))
Pairs(g, w) == [k \in 1..Min(Len(w), Len(g)) |-> <<w[k], g[k]>>]

\* the naive rule: a letter of the guess that is anywhere in the wordle is yellow
TileAt_Naive(pairs, k) ==
    IF pairs[k][1] = pairs[k][2] THEN Y_DISPLAY
    ELSE IF \E j \in DOMAIN pairs : pairs[j][1] = pairs[k][2] THEN M_DISPLAY
    ELSE N_DISPLAY

\* one turn of the loop `for w, g in pairs`
TileAt(pairs, k) ==
    IF pairs[k][1] = pairs[k][2] THEN Y_DISPLAY
    ELSE IF \E j \in DOMAIN pairs :
                pairs[j][1] = pairs[k][2] /\ pairs[j][2] # pairs[k][2]
         THEN M_DISPLAY
    ELSE N_DISPLAY

\* the length check compares the two words with each other only
InvalidWords_SameLen(g, w) == Len(g) # Len(w)

\* if len(guess) != 5 or len(wordle) != 5
InvalidWords(g, w) == Len(g) # WordLen \/ Len(w) # WordLen

compare_words(g, w) ==
    IF InvalidWords(g, w) THEN Raise("ValueError")
    ELSE LET pairs == Pairs(g, w)
         IN  Ok([k \in DOMAIN pairs |-> TileAt(pairs, k)])

-----------------------------------------------------------------------------
(* The calls of compare_words: the arguments are drawn at the start *)

NoCall == Ok(<<>>)

InitCompare ==
    /\ output_style \in Styles
    /\ accepted_words = <<>>
    /\ last = "init"
    /\ guess \in InputWords
    /\ wordle \in InputWords
    /\ tiles = NoCall
    /\ known_info = <<>>
    /\ wordlist = <<>>
    /\ candidates = NoCall

CompareWords ==
    /\ last = "init"
    /\ tiles' = compare_words(guess, wordle)
    /\ last' = "compare_words"
    /\ UNCHANGED <<output_style, accepted_words, guess, wordle,
                   known_info, wordlist, candidates>>

NextCompare == CompareWords

SpecCompare == InitCompare /\ [][NextCompare]_vars

-----------------------------------------------------------------------------
(* find_candidates *)

InWord(x, word) == \E k \in DOMAIN word : word[k] = x

\* green_letters.index(x): the first position holding x
IndexOf(green, x) == CHOOSE k \in DOMAIN green : green[k] = x /\ \A j \in 1..(k - 1) : green[j] # x

\* for wd, ts in known_info: if len(wd) != 5 or len(ts) != 5
InvalidInfo(info) ==
    \E n \in DOMAIN info : Len(info[n][1]) # WordLen \/ Len(info[n][2]) # WordLen

\* green_letters = [None] * 5
NoGreen == [k \in 1..WordLen |-> "None"]

\* the inner loop of the green-letter pass, over one record
GreenOfRecord(green, guessed_word, tilestring) ==
    [k \in 1..WordLen |-> IF tilestring[k] \in YES THEN guessed_word[k] ELSE green[k]]

RECURSIVE GreenLoop(_, _, _)
\* the green-letter pass over the records from the n-th on
GreenLoop(info, n, green) ==
    IF n > Len(info) THEN green
    ELSE GreenLoop(info, n + 1, GreenOfRecord(green, info[n][1], info[n][2]))

green_letters(info) == GreenLoop(info, 1, NoGreen)

\* a black tile disqualifies every word holding the letter, green or not
TileCheck_NoGreen(word, guessed_word, tile, k, green) ==
    IF tile \in YES THEN
        IF k > Len(word) THEN "IndexError"
        ELSE IF word[k] # guessed_word[k] THEN "fail" ELSE "pass"
    ELSE IF tile \in NO THEN
        IF InWord(guessed_word[k], word) THEN "fail" ELSE "pass"
    ELSE IF tile \in MAYBE THEN
        IF ~InWord(guessed_word[k], word) THEN "fail"
        ELSE IF k > Len(word) THEN "IndexError"
        ELSE IF guessed_word[k] = word[k] THEN "fail" ELSE "pass"
    ELSE "pass"

\* the green tile is checked against the green-letter map, not against the guess
TileCheck_ByGreenMap(word, guessed_word, tile, k, green) ==
    IF tile \in YES THEN
        IF k > Len(word) THEN "IndexError"
        ELSE IF word[k] # green[k] THEN "fail" ELSE "pass"
    ELSE IF tile \in NO THEN
        IF ~InWord(guessed_word[k], word) THEN "pass"
        ELSE IF ~InWord(guessed_word[k], green) THEN "fail"
        ELSE IF IndexOf(green, guessed_word[k]) > Len(word) THEN "IndexError"
        ELSE IF word[IndexOf(green, guessed_word[k])] # guessed_word[k] THEN "fail"
        ELSE IF k > Len(word) THEN "IndexError"
        ELSE IF word[k] = guessed_word[k] THEN "fail" ELSE "pass"
    ELSE IF tile \in MAYBE THEN
        IF ~InWord(guessed_word[k], word) THEN "fail"
        ELSE IF k > Len(word) THEN "IndexError"
        ELSE IF guessed_word[k] = word[k] THEN "fail" ELSE "pass"
    ELSE "pass"

\* the if / elif / elif of the innermost loop at position k: "fail" when the
\* word is disqualified, "IndexError" when an index past the word is read
TileCheck(word, guessed_word, tile, k, green) ==
    IF tile \in YES THEN
        IF k > Len(word) THEN "IndexError"
        ELSE IF word[k] # guessed_word[k] THEN "fail" ELSE "pass"
    ELSE IF tile \in NO THEN
        IF ~InWord(guessed_word[k], word) THEN "pass"
        ELSE IF ~InWord(guessed_word[k], green) THEN "fail"
        ELSE IF IndexOf(green, guessed_word[k]) > Len(word) THEN "IndexError"
        ELSE IF word[IndexOf(green, guessed_word[k])] # guessed_word[k] THEN "fail"
        ELSE IF k > Len(word) THEN "IndexError"
        ELSE IF word[k] = guessed_word[k] THEN "fail" ELSE "pass"
    ELSE IF tile \in MAYBE THEN
        IF ~InWord(guessed_word[k], word) THEN "fail"
        ELSE IF k > Len(word) THEN "IndexError"
        ELSE IF guessed_word[k] = word[k] THEN "fail" ELSE "pass"
    ELSE "pass"

RECURSIVE RecordLoop(_, _, _, _, _)
\* for i, tile in enumerate(tilestring), from position k on, with its break
RecordLoop(word, guessed_word, tilestring, k, green) ==
    IF k > Len(tilestring) THEN "pass"
    ELSE LET c == TileCheck(word, guessed_word, tilestring[k], k, green)
         IN  IF c # "pass" THEN c
             ELSE RecordLoop(word, guessed_word, tilestring, k + 1, green)

RECURSIVE InfoLoop(_, _, _, _)
\* for guessed_word, tilestring in known_info, from record n on, with its break
InfoLoop(word, info, n, green) ==
    IF n > Len(info) THEN "pass"
    ELSE LET c == RecordLoop(word, info[n][1], info[n][2], 1, green)
         IN  IF c # "pass" THEN c
             ELSE InfoLoop(word, info, n + 1, green)

\* the first word that qualifies is not collected
Collect_SkipFirst(list, passed) ==
    [j \in 1..(Len(passed) - 1) |-> list[passed[j + 1]]]

\* candidates = [] and candidates.append(word), for the positions in the
\* word list of the words that qualify, in the order of the list
Collect(list, passed) == [j \in 1..Len(passed) |-> list[passed[j]]]

\* for word in wordlist: an IndexError ends the call, else the words that
\* qualify are collected
WordLoop(list, info, green) ==
    LET outcome == [n \in DOMAIN list |-> InfoLoop(list[n], info, 1, green)]
        passed == SelectSeq([n \in DOMAIN list |-> n], LAMBDA n : outcome[n] = "pass")
    IN  IF \E n \in DOMAIN list : outcome[n] = "IndexError"
        THEN Raise("IndexError")
        ELSE Ok(Collect(list, passed))

find_candidates(info, list) ==
    IF InvalidInfo(info) THEN Raise("ValueError")
    ELSE WordLoop(list, info, green_letters(info))

-----------------------------------------------------------------------------
(* The calls of find_candidates on one guess: the arguments are drawn at   *)
(* the start                                                               *)

Kinds == {"Hit", "Present", "Absent"}

\* a tilestring is written in one of the two output styles, or with the
\* blocks of the light theme (white for black)

Symbol(rendering, kind) ==
    IF rendering = "alpha"
    THEN (IF kind = "Hit" THEN "Y" ELSE IF kind = "Present" THEN "?" ELSE "_")
    ELSE (IF kind = "Hit" THEN "green"
          ELSE IF kind = "Present" THEN "yellow"
          ELSE IF rendering = "blocks" THEN "black" ELSE "white")

TileStringsIn(rendering) ==
    {[k \in 1..WordLen |-> Symbol(rendering, ks[k])] : ks \in [1..WordLen -> Kinds]}

LetterIndex(x) == CHOOSE k \in 1..NumLetters : Alphabet[k] = x

\* the guessed words up to a renaming of the letters: the first letter is A
\* and each new letter is the next of the alphabet
IsFirstOfItsShape(word) ==
    \A k \in 1..WordLen :
        \/ LetterIndex(word[k]) = 1
        \/ \E j \in 1..(k - 1) : LetterIndex(word[j]) + 1 >= LetterIndex(word[k])

Guesses == {word \in Words : IsFirstOfItsShape(word)}

\* the guess records: a 5-letter word and a 5-tile string, written as the
\* object writes tilestrings
Records == Guesses \X TileStringsIn(output_style)

RECURSIVE Power(_, _)
Power(b, e) == IF e = 0 THEN 1 ELSE b * Power(b, e - 1)

\* the n-th 5-letter word in alphabetical order
NthWord(n) ==
    [k \in 1..WordLen |->
        Alphabet[(((n - 1) \div Power(NumLetters, WordLen - k)) % NumLetters) + 1]]

\* the built-in word list: every 5-letter word, in alphabetical order
AllWords == [n \in 1..Power(NumLetters, WordLen) |-> NthWord(n)]

\* a short list, out of order and with a word twice
ShortList ==
    <<AllWords[Len(AllWords)], AllWords[2], AllWords[1], AllWords[2]>>

Init ==
    /\ output_style \in Styles
    /\ accepted_words = AllWords
    /\ last = "init"
    /\ guess = <<>>
    /\ wordle = <<>>
    /\ tiles = NoCall
    /\ known_info \in {<<>>} \cup {<<r>> : r \in Records}
    /\ wordlist \in {accepted_words, ShortList}
    /\ candidates = NoCall

FindCandidates ==
    /\ last = "init"
    /\ candidates' = find_candidates(known_info, wordlist)
    /\ last' = "find_candidates"
    /\ UNCHANGED <<output_style, accepted_words, guess, wordle, tiles,
                   known_info, wordlist>>

Next == FindCandidates

Spec == Init /\ [][Next]_vars

-----------------------------------------------------------------------------
(* A solving session: the caller appends the record of each guess to       *)
(* known_info and filters the word list again                              *)

\* records of a session
MaxHistory == 2

\* a session word or tilestring is two letters or tiles, the second repeated
\* up to the length of the word
Pad(first, rest) == [k \in 1..WordLen |-> IF k = 1 THEN first ELSE rest]

SessionLetters == {"A", "B"}

SessionWords == {Pad(x, y) : x \in SessionLetters, y \in SessionLetters}

SessionTiles ==
    LET symbols == {Symbol(output_style, kd) : kd \in Kinds}
    IN  {Pad(t, u) : t \in symbols, u \in symbols}

SessionRecords == SessionWords \X SessionTiles

\* the word list of a session: the words of that shape over the alphabet
SessionList ==
    [n \in 1..(NumLetters * NumLetters) |->
        Pad(Alphabet[((n - 1) \div NumLetters) + 1], Alphabet[((n - 1) % NumLetters) + 1])]

InitSession ==
    /\ output_style \in Styles
    /\ accepted_words = <<>>
    /\ last = "find_candidates"
    /\ guess = <<>>
    /\ wordle = <<>>
    /\ tiles = NoCall
    /\ known_info = <<>>
    /\ wordlist = SessionList
    /\ candidates = find_candidates(known_info, wordlist)

NextGuess ==
    \E r \in SessionRecords :
        /\ Len(known_info) < MaxHistory
        /\ known_info' = Append(known_info, r)
        /\ candidates' = find_candidates(known_info', wordlist)
        /\ UNCHANGED <<output_style, accepted_words, last, guess, wordle, tiles, wordlist>>

NextSession == NextGuess

SpecSession == InitSession /\ [][NextSession]_vars

-----------------------------------------------------------------------------
(* The calls of find_candidates on words and tilestrings of any length *)

\* words of a list handed to find_candidates
MaxList == 1

\* words and tilestrings of two letters or tiles
ShortWords == {<<x, y>> : x \in Letters, y \in Letters}

ShortTiles ==
    LET symbols == {Symbol(output_style, kd) : kd \in Kinds}
    IN  {<<t, u>> : t \in symbols, u \in symbols}

\* tilestrings with the blocks of the light theme
LightTiles ==
    LET symbols == {Symbol("light", kd) : kd \in Kinds}
    IN  {Pad(t, u) : t \in symbols, u \in symbols}

AnyRecords ==
    (SessionWords \cup ShortWords) \X (SessionTiles \cup LightTiles \cup ShortTiles)

AnyLists == UNION {[1..n -> InputWords] : n \in 0..MaxList}

InitLists ==
    /\ output_style \in Styles
    /\ accepted_words = <<>>
    /\ last = "init"
    /\ guess = <<>>
    /\ wordle = <<>>
    /\ tiles = NoCall
    /\ known_info \in {<<>>} \cup {<<r>> : r \in AnyRecords}
    /\ wordlist \in AnyLists
    /\ candidates = NoCall

SpecLists == InitLists /\ [][Next]_vars

-----------------------------------------------------------------------------
(* Properties of compare_words, checked under SpecCompare *)

Compared == last = "compare_words" /\ tiles.error = "none"

\* letters of the two words compared
ComparedLetters == {guess[k] : k \in DOMAIN guess} \cup {wordle[k] : k \in DOMAIN wordle}

Occurrences(word, x) == Cardinality({k \in DOMAIN word : word[k] = x})

\* positions of the guess holding x whose tile is not the absent tile
Marked(x) == {k \in DOMAIN guess : guess[k] = x /\ tiles.value[k] # N_DISPLAY}

\* C2: after compare_words(guess, wordle) on two 5-letter words, for every
\* letter x the number of positions of the guess holding x with a Hit or
\* Present tile is at most the number of occurrences of x in the wordle.
OccurrenceConservation ==
    Compared => \A x \in ComparedLetters :
                    Cardinality(Marked(x)) <= Occurrences(wordle, x)

\* C5: compare_words raises ValueError exactly when the guess or the wordle
\* is not 5 letters long (also when both have the same wrong length), and
\* otherwise returns 5 tiles, each a tile of the style chosen at construction.
CompareLengthContract ==
    last = "compare_words" =>
        /\ tiles.error \in {"none", "ValueError"}
        /\ tiles.error = "ValueError" <=> (Len(guess) # WordLen \/ Len(wordle) # WordLen)
        /\ tiles.error = "none" =>
              /\ Len(tiles.value) = WordLen
              /\ \A k \in 1..WordLen :
                    tiles.value[k] \in {Y_DISPLAY, M_DISPLAY, N_DISPLAY}

\* two words of the same length other than 5 were compared and rejected
SameWrongLengthRejected ==
    /\ last = "compare_words"
    /\ Len(guess) = Len(wordle)
    /\ Len(guess) # WordLen
    /\ tiles.error = "ValueError"

\* every occurrence in the wordle of the letter at position k of the guess is
\* at a position where guess and wordle agree
AllOccurrencesHit(k) ==
    \A j \in DOMAIN wordle : wordle[j] = guess[k] => guess[j] = wordle[j]

SLOSH == <<"S", "L", "O", "S", "H">>

SHUNT == <<"S", "H", "U", "N", "T">>

\* C9: a position of the guess that is not a Hit, and whose letter occurs in
\* the wordle only at positions that are Hits, gets the Absent tile; and
\* compare_words("SLOSH", "SHUNT") is Hit, Absent, Absent, Absent, Present.
HitConsumption ==
    /\ Compared =>
          \A k \in 1..WordLen :
              (guess[k] # wordle[k] /\ AllOccurrencesHit(k)) => tiles.value[k] = N_DISPLAY
    /\ compare_words(SLOSH, SHUNT) =
          Ok(<<Y_DISPLAY, N_DISPLAY, N_DISPLAY, N_DISPLAY, M_DISPLAY>>)

\* a letter of the guess is Absent although the wordle holds it, at a Hit
HitConsumed ==
    /\ Compared
    /\ \E k \in 1..WordLen :
          /\ guess[k] # wordle[k]
          /\ \E j \in 1..WordLen : wordle[j] = guess[k]
          /\ AllOccurrencesHit(k)
          /\ tiles.value[k] = N_DISPLAY

-----------------------------------------------------------------------------
(* Properties of find_candidates on one guess, checked under Spec *)

Filtered == last = "find_candidates" /\ candidates.error = "none"

\* C6: filtering the list find_candidates returned, with the same known_info,
\* returns that list again: same words, same order, same multiplicities.
FilterIdempotent ==
    Filtered => find_candidates(known_info, candidates.value) = candidates

\* some word was dropped and a word of the list was kept twice
FilteredSome ==
    /\ Filtered
    /\ known_info # <<>>
    /\ Len(candidates.value) < Len(wordlist)
    /\ \E m, n \in DOMAIN candidates.value :
          m # n /\ candidates.value[m] = candidates.value[n]

\* C1: when the one record of known_info is a guess with the tilestring
\* compare_words gives for that guess against a word t of the word list,
\* find_candidates returns t.
RoundTrip ==
    (Filtered /\ Len(known_info) = 1) =>
        \A n \in DOMAIN wordlist :
            compare_words(known_info[1][1], wordlist[n]) = Ok(known_info[1][2])
                => InWord(wordlist[n], candidates.value)

\* the round trip of a guess with a repeated letter, one occurrence a Hit
\* and another Absent, for a word that is not the guess
RoundTripRepeatedLetter ==
    /\ Filtered
    /\ Len(known_info) = 1
    /\ \E n \in DOMAIN wordlist :
          /\ compare_words(known_info[1][1], wordlist[n]) = Ok(known_info[1][2])
          /\ wordlist[n] # known_info[1][1]
          /\ InWord(wordlist[n], candidates.value)
          /\ \E j, k \in 1..WordLen :
                /\ known_info[1][1][j] = known_info[1][1][k]
                /\ known_info[1][2][j] \in YES
                /\ known_info[1][2][k] \in NO

\* C3: for every word c returned and every Absent tile of a record, at
\* position k with letter x: x occurs in c only at positions where the
\* green-letter map holds x, and not at position k.
AbsentRule ==
    Filtered =>
        \A m \in DOMAIN candidates.value, n \in DOMAIN known_info, k \in 1..WordLen :
            known_info[n][2][k] \in NO =>
                LET c == candidates.value[m]
                    x == known_info[n][1][k]
                IN  /\ c[k] # x
                    /\ \A p \in 1..WordLen :
                          c[p] = x => green_letters(known_info)[p] = x

KindOf(tile) ==
    IF tile \in YES THEN "Hit"
    ELSE IF tile \in MAYBE THEN "Present"
    ELSE IF tile \in NO THEN "Absent"
    ELSE "None"

\* C8: every word c returned gives, for every record (g, fb) of known_info,
\* compare_words(g, c) with the same kind of tile as fb at every position.
FilterSound ==
    Filtered =>
        \A m \in DOMAIN candidates.value, n \in DOMAIN known_info :
            LET fb == compare_words(known_info[n][1], candidates.value[m])
            IN  /\ fb.error = "none"
                /\ \A k \in 1..WordLen :
                      KindOf(fb.value[k]) = KindOf(known_info[n][2][k])

-----------------------------------------------------------------------------
(* Properties of a session, checked under SpecSession *)

\* the first position after j at which b holds x; 0 when there is none
NextMatch(b, j, x) ==
    IF \E m \in (j + 1)..Len(b) : b[m] = x
    THEN CHOOSE m \in (j + 1)..Len(b) :
             b[m] = x /\ \A l \in (j + 1)..(m - 1) : b[l] # x
    ELSE 0

RECURSIVE SubseqFrom(_, _, _, _)
\* a from its i-th word on is a sub-sequence of b after its j-th word
SubseqFrom(a, i, b, j) ==
    IF i > Len(a) THEN TRUE
    ELSE LET m == NextMatch(b, j, a[i])
         IN  m # 0 /\ SubseqFrom(a, i + 1, b, m)

IsSubseq(a, b) == SubseqFrom(a, 1, b, 0)

\* C7: the words returned after a record is appended to known_info are a
\* sub-sequence of the words returned before: no word is re-admitted.
Narrowing == [][IsSubseq(candidates'.value, candidates.value)]_vars

Permuted(info, f) == [n \in DOMAIN info |-> info[f[n]]]

\* C10: find_candidates returns the same list for every order of the
\* records of known_info.
OrderIndependent ==
    \A f \in Permutations(DOMAIN known_info) :
        find_candidates(Permuted(known_info, f), wordlist) = candidates

\* two records give a Hit at the same position for different letters, and
\* find_candidates was called: the green-letter map depends on their order
ConflictingHits ==
    /\ Len(known_info) = 2
    /\ candidates.error = "none"
    /\ \E k \in 1..WordLen :
          /\ known_info[1][2][k] \in YES
          /\ known_info[2][2][k] \in YES
          /\ known_info[1][1][k] # known_info[2][1][k]
    /\ green_letters(known_info) # green_letters(Permuted(known_info, <<2, 1>>))

-----------------------------------------------------------------------------
(* Properties of find_candidates on any input, checked under SpecLists *)

WrongLengthGiven ==
    \/ InvalidInfo(known_info)
    \/ \E n \in DOMAIN wordlist : Len(wordlist[n]) # WordLen

\* C4: find_candidates returns a list of 5-letter words or raises
\* ValueError, which it does whenever a word or tilestring given to it is
\* not of length 5; it raises no other error.
OnlyInvalidInput ==
    last = "find_candidates" =>
        /\ candidates.error \in {"none", "ValueError"}
        /\ WrongLengthGiven => candidates.error = "ValueError"
        /\ candidates.error = "none" =>
              \A n \in DOMAIN candidates.value : Len(candidates.value[n]) = WordLen

====
